---- MODULE Spec2Model ----
(***************************************************************************)
(* Excel upload service: the Express route POST /api/upload-excel          *)
(* (server.js) and the serverless handler (api/upload-excel.js).           *)
(*                                                                         *)
(* A request is received, its multipart body is parsed by the upload       *)
(* library (multer / multiparty), the first sheet of the workbook is       *)
(* normalised to row records, the rows are sorted and sent back.           *)
(*                                                                         *)
(* Specifications:                                                         *)
(*   Spec            one upload request from its arrival to its response   *)
(*   StatusSpec      getStatusInfo applied to one resolved cell value      *)
(*   HeaderSpec      header extraction and field names of one header row   *)
(*   ClientSpec      the upload form of the client                         *)
(*   ConcurrentSpec  two upload requests side by side                      *)
(*   FairSpec        Spec with every handling step eventually taken        *)
(*   CellSpec        getFormattedCellValue applied to one cell             *)
(*   EquivSpec       one workbook normalised by both servers               *)
(*   CaptureSpec     one call of downloadAsImage of the client             *)
(*                                                                         *)
(* JavaScript values are records [t, x, s, n]:                             *)
(*   t  the typeof tag ("string", "number", "boolean", "undefined",        *)
(*      "null"),                                                           *)
(*   x  for numbers "fin", "inf", "ninf" or "nan",                         *)
(*   s  the characters of a string, as a sequence of 1-character strings,  *)
(*   n  a finite number in units of 1/Scale (half minutes of a day), or    *)
(*      0/1 for a boolean.                                                 *)
(***************************************************************************)
EXTENDS Integers, Sequences, FiniteSets, TLC

VARIABLES req, pc, err, tmpFile, worksheet, res, responses,
          statusArg, statusResult,
          clientPc, file, posted, shownError,
          invocations, disk,
          firstRow, labels, fields,
          cellArg, cellResult,
          book, expressAnswer, serverlessAnswer,
          capturePc, page, style, saved, captureMode, isGeneratingImage

\* the state of one upload request on the server
serverVars == <<req, pc, err, tmpFile, worksheet, res, responses>>

\* the state of one call of getStatusInfo
statusVars == <<statusArg, statusResult>>

\* the state of the client's upload form
clientVars == <<clientPc, file, posted, shownError>>

\* the state of several upload requests in progress and of the directories
\* their files are stored in
concurrentVars == <<invocations, disk>>

\* the first row of a sheet, the header labels and the field names made of
\* it
headerVars == <<firstRow, labels, fields>>

\* the state of one call of getFormattedCellValue
cellVars == <<cellArg, cellResult>>

\* one workbook and the answers of the two servers to it
equivVars == <<book, expressAnswer, serverlessAnswer>>

\* the table of the page and one call of downloadAsImage
captureVars == <<capturePc, page, style, saved, captureMode, isGeneratingImage>>

\* what the server's actions leave alone
restVars == <<statusVars, clientVars, concurrentVars, headerVars, cellVars, equivVars, captureVars>>

\* what a call of getStatusInfo leaves alone
notStatus == <<serverVars, clientVars, concurrentVars, headerVars, cellVars, equivVars, captureVars>>

\* what the client's actions leave alone
notClient == <<serverVars, statusVars, concurrentVars, headerVars, cellVars, equivVars, captureVars>>

\* what concurrent requests leave alone
notConcurrent == <<serverVars, statusVars, clientVars, headerVars, cellVars, equivVars, captureVars>>

\* what a call of getFormattedCellValue leaves alone
notCell == <<serverVars, statusVars, clientVars, concurrentVars, headerVars, equivVars, captureVars>>

\* what the two normalisations of one workbook leave alone
notEquiv == <<serverVars, statusVars, clientVars, concurrentVars, headerVars, cellVars, captureVars>>

\* what downloadAsImage leaves alone
notCapture == <<serverVars, statusVars, clientVars, concurrentVars, headerVars, cellVars,
                equivVars>>

\* what the header extraction leaves alone
notHeader == <<serverVars, statusVars, clientVars, concurrentVars, cellVars, equivVars, captureVars>>

vars == <<serverVars, restVars>>

----------------------------------------------------------------------------
(* Numbers                                                                 *)

\* serial * 24 * 60 is the number of minutes; the model counts half minutes
\* so that Math.round has something to round.
MinutesPerDay == 24 * 60

Scale == 2 * MinutesPerDay

Undefined == [t |-> "undefined", x |-> "", s |-> <<>>, n |-> 0]

Null == [t |-> "null", x |-> "", s |-> <<>>, n |-> 0]

Str(chars) == [t |-> "string", x |-> "", s |-> chars, n |-> 0]

\* a finite number given in units of 1/Scale
Num(units) == [t |-> "number", x |-> "fin", s |-> <<>>, n |-> units]

\* a finite integer
Int2Num(i) == Num(i * Scale)

PosInfinity == [t |-> "number", x |-> "inf", s |-> <<>>, n |-> 0]

NegInfinity == [t |-> "number", x |-> "ninf", s |-> <<>>, n |-> 0]

NaN == [t |-> "number", x |-> "nan", s |-> <<>>, n |-> 0]

True == [t |-> "boolean", x |-> "", s |-> <<>>, n |-> 1]

False == [t |-> "boolean", x |-> "", s |-> <<>>, n |-> 0]

\* typeof v === 'number'
IsNumber(v) == v.t = "number"

IsNaN(v) == v.t = "number" /\ v.x = "nan"

\* ToBoolean: '', 0, NaN, false, undefined and null are falsy
Truthy(v) ==
    CASE v.t = "string" -> v.s # <<>>
      [] v.t = "number" -> v.x \in {"inf", "ninf"} \/ (v.x = "fin" /\ v.n # 0)
      [] v.t = "boolean" -> v.n = 1
      [] OTHER -> FALSE

\* a || b
Or(a, b) == IF Truthy(a) THEN a ELSE b

\* a - b on numbers (IEEE: Infinity - Infinity is NaN)
Minus(a, b) ==
    CASE a.x = "nan" \/ b.x = "nan" -> NaN
      [] a.x = "fin" /\ b.x = "fin" -> Num(a.n - b.n)
      [] a.x = "fin" /\ b.x = "inf" -> NegInfinity
      [] a.x = "fin" /\ b.x = "ninf" -> PosInfinity
      [] a.x = b.x -> NaN
      [] OTHER -> a

\* a <= b on numbers
NumLeq(a, b) ==
    CASE a.x = "nan" \/ b.x = "nan" -> FALSE
      [] a.x = "ninf" \/ b.x = "inf" -> TRUE
      [] a.x = "inf" \/ b.x = "ninf" -> FALSE
      [] OTHER -> a.n <= b.n

----------------------------------------------------------------------------
(* Strings                                                                 *)

LowerAlpha == <<"a","b","c","d","e","f","g","h","i","j","k","l","m",
                "n","o","p","q","r","s","t","u","v","w","x","y","z">>

UpperAlpha == <<"A","B","C","D","E","F","G","H","I","J","K","L","M",
                "N","O","P","Q","R","S","T","U","V","W","X","Y","Z">>

DigitChars == <<"0","1","2","3","4","5","6","7","8","9">>

WhiteSpace == {" ", "\t", "\n"}

\* the value of each decimal digit
DigitValue == [c \in {DigitChars[i] : i \in 1..10} |->
                  (CHOOSE i \in 1..10 : DigitChars[i] = c) - 1]

\* the upper-case form of each lower-case letter, and the converse
UpperOf == [c \in {LowerAlpha[i] : i \in 1..26} |->
               UpperAlpha[CHOOSE i \in 1..26 : LowerAlpha[i] = c]]

LowerOf == [c \in {UpperAlpha[i] : i \in 1..26} |->
               LowerAlpha[CHOOSE i \in 1..26 : UpperAlpha[i] = c]]

IsDigit(c) == c \in DOMAIN DigitValue

DigitVal(c) == DigitValue[c]

IsLetter(c) == c \in DOMAIN UpperOf \/ c \in DOMAIN LowerOf

UpperChar(c) == IF c \in DOMAIN UpperOf THEN UpperOf[c] ELSE c

LowerChar(c) == IF c \in DOMAIN LowerOf THEN LowerOf[c] ELSE c

\* String.prototype.toUpperCase / toLowerCase
ToUpperCase(s) == [i \in 1..Len(s) |-> UpperChar(s[i])]

ToLowerCase(s) == [i \in 1..Len(s) |-> LowerChar(s[i])]

\* String.prototype.includes
Includes(s, sub) ==
    \E i \in 0..(Len(s) - Len(sub)) : SubSeq(s, i + 1, i + Len(sub)) = sub

\* String.prototype.startsWith
StartsWith(s, prefix) ==
    Len(prefix) <= Len(s) /\ SubSeq(s, 1, Len(prefix)) = prefix

RECURSIVE TrimStart(_)
TrimStart(s) ==
    IF s # <<>> /\ Head(s) \in WhiteSpace THEN TrimStart(Tail(s)) ELSE s

RECURSIVE TrimEnd(_)
TrimEnd(s) ==
    IF s # <<>> /\ s[Len(s)] \in WhiteSpace
    THEN TrimEnd(SubSeq(s, 1, Len(s) - 1))
    ELSE s

\* String.prototype.trim
Trim(s) == TrimEnd(TrimStart(s))

AllDigits(s) == \A i \in 1..Len(s) : IsDigit(s[i])

\* the value of a sequence of decimal digits
RECURSIVE DigitsVal(_)
DigitsVal(s) ==
    IF s = <<>> THEN 0
    ELSE 10 * DigitsVal(SubSeq(s, 1, Len(s) - 1)) + DigitVal(s[Len(s)])

RECURSIVE Pow10(_)
Pow10(k) == IF k = 0 THEN 1 ELSE 10 * Pow10(k - 1)

\* the decimal digits of a natural number
RECURSIVE NatDigits(_)
NatDigits(k) ==
    IF k < 10 THEN <<DigitChars[k + 1]>>
    ELSE NatDigits(k \div 10) \o <<DigitChars[(k % 10) + 1]>>

\* String.prototype.padStart(2, '0')
PadStart2(s) == IF Len(s) < 2 THEN <<"0">> \o s ELSE s

InfinityChars == <<"I","n","f","i","n","i","t","y">>

\* the position of the decimal point of s, or 0
DotAt(s) == IF \E i \in 1..Len(s) : s[i] = "."
            THEN CHOOSE i \in 1..Len(s) : s[i] = "." /\ \A j \in 1..(i-1) : s[j] # "."
            ELSE 0

\* an unsigned decimal literal: digits, digits.digits, digits. or .digits
IsUnsignedDecimal(s) ==
    LET d == DotAt(s) IN
    IF d = 0 THEN s # <<>> /\ AllDigits(s)
    ELSE /\ Len(s) > 1
         /\ AllDigits(SubSeq(s, 1, d - 1))
         /\ AllDigits(SubSeq(s, d + 1, Len(s)))

\* the value of an unsigned decimal literal in units of 1/Scale; fractions
\* that are not a whole number of units are outside the model's numbers
UnsignedDecimalUnits(s) ==
    LET d == DotAt(s)
        ip == IF d = 0 THEN s ELSE SubSeq(s, 1, d - 1)
        fp == IF d = 0 THEN <<>> ELSE SubSeq(s, d + 1, Len(s))
        fnum == DigitsVal(fp) * Scale
    IN  CASE fnum % Pow10(Len(fp)) = 0 ->
             DigitsVal(ip) * Scale + fnum \div Pow10(Len(fp))

\* Number(string): StringToNumber on the trimmed text (decimal literals and
\* Infinity; the model's strings hold no hex, binary, octal or exponent
\* literal)
StringToNumber(s) ==
    LET t == Trim(s)
        signed == t # <<>> /\ Head(t) \in {"+", "-"}
        neg == t # <<>> /\ Head(t) = "-"
        body == IF signed THEN Tail(t) ELSE t
    IN  IF t = <<>> THEN Num(0)
        ELSE IF body = InfinityChars THEN (IF neg THEN NegInfinity ELSE PosInfinity)
        ELSE IF IsUnsignedDecimal(body)
             THEN Num((IF neg THEN -1 ELSE 1) * UnsignedDecimalUnits(body))
        ELSE NaN

\* Number(v)
ToNumber(v) ==
    CASE v.t = "number" -> v
      [] v.t = "string" -> StringToNumber(v.s)
      [] v.t = "boolean" -> Int2Num(v.n)
      [] v.t = "null" -> Num(0)
      [] OTHER -> NaN

\* Number.prototype.toString of a finite number; the model's numbers that
\* reach a string conversion are integers
FiniteToString(units) ==
    CASE units % Scale = 0 ->
         IF units < 0 THEN <<"-">> \o NatDigits((0 - units) \div Scale)
         ELSE NatDigits(units \div Scale)

\* String(v), v.toString() and `${v}`
StringOf(v) ==
    CASE v.t = "string" -> v.s
      [] v.t = "number" /\ v.x = "fin" -> FiniteToString(v.n)
      [] v.t = "number" /\ v.x = "inf" -> InfinityChars
      [] v.t = "number" /\ v.x = "ninf" -> <<"-">> \o InfinityChars
      [] v.t = "number" /\ v.x = "nan" -> <<"N","a","N">>
      [] v.t = "boolean" -> IF v.n = 1 THEN <<"t","r","u","e">>
                            ELSE <<"f","a","l","s","e">>
      [] v.t = "null" -> <<"n","u","l","l">>
      [] OTHER -> <<"u","n","d","e","f","i","n","e","d">>

----------------------------------------------------------------------------
(* Cells                                                                   *)

\* worksheet[cellAddress] is undefined
AbsentCell == [present |-> FALSE, w |-> Undefined, v |-> Undefined]

\* a cell object with formatted text w and raw value v (either may be
\* undefined)
Cell(w, v) == [present |-> TRUE, w |-> w, v |-> v]

\* Helper function to convert Excel serial date to time format
convertExcelTime(serial) ==
    IF ~IsNumber(serial) THEN serial
    ELSE LET \* Math.round(serial * 24 * 60): round half up
             totalMinutes == (serial.n * MinutesPerDay * 2 + Scale) \div (2 * Scale)
             hours == (totalMinutes \div 60) % 24
             minutes == totalMinutes % 60
         IN  Str(PadStart2(NatDigits(hours)) \o <<":">> \o PadStart2(NatDigits(minutes)))

\* Helper function to get formatted cell value
getFormattedCellValue(cell) ==
    IF ~cell.present THEN Str(<<>>)
    ELSE IF Truthy(cell.w) THEN cell.w
    ELSE IF cell.v # Undefined
         THEN IF IsNumber(cell.v) /\ cell.v.x = "fin" /\ cell.v.n >= 0 /\ cell.v.n < Scale
              THEN convertExcelTime(cell.v)
              ELSE cell.v
    ELSE Str(<<>>)

----------------------------------------------------------------------------
(* Status classification                                                   *)

StatusInfo(status, color, type) == [status |-> status, color |-> color, type |-> type]

GreenWords == {<<"A","C","T","I","V","E">>, <<"P","A","S","S">>,
               <<"E","N","A","B","L","E","D">>,
               <<"U","N","S","U","S","P","E","N","D","E","D">>}

RedWords == {<<"O","F","F">>, <<"F","A","I","L","E","D">>,
             <<"I","N","A","C","T","I","V","E">>,
             <<"S","U","S","P","E","N","D","E","D">>}

\* OrangeWords with a keyword of the red list
OrangeWordsWithFailed == {<<"P","E","N","D","I","N","G">>, <<"F","A","I","L","E","D">>}

OrangeWords == {<<"P","E","N","D","I","N","G">>}

\* /^\d{1,2}:\d{2}$/
IsTimeText(s) ==
    \E k \in 1..2 :
        /\ Len(s) = k + 3
        /\ AllDigits(SubSeq(s, 1, k))
        /\ s[k + 1] = ":"
        /\ AllDigits(SubSeq(s, k + 2, k + 3))

\* /^\d{1,2}-[A-Za-z]{3}$/
IsDayMonthText(s) ==
    \E k \in 1..2 :
        /\ Len(s) = k + 4
        /\ AllDigits(SubSeq(s, 1, k))
        /\ s[k + 1] = "-"
        /\ \A i \in (k + 2)..(k + 4) : IsLetter(s[i])

\* Helper function to determine status and color based on cell value
getStatusInfo(value) ==
    IF ~Truthy(value) \/ value = Null \/ value = Undefined \/ value = Str(<<>>)
    THEN StatusInfo(<<"N","A">>, <<"#","d","9","d","9","d","9">>, <<"d","e","f","a","u","l","t">>)
    ELSE LET strValue == Trim(ToUpperCase(StringOf(value))) IN
         IF strValue \in GreenWords
         THEN StatusInfo(strValue, <<"#","0","0","B","0","5","0">>, <<"s","u","c","c","e","s","s">>)
         ELSE IF strValue \in RedWords
         THEN StatusInfo(strValue, <<"#","F","F","0","0","0","0">>, <<"e","r","r","o","r">>)
         ELSE IF strValue \in OrangeWords
         THEN StatusInfo(strValue, <<"#","F","F","C","0","0","0">>, <<"w","a","r","n","i","n","g">>)
         ELSE IF IsTimeText(strValue)
         THEN IF strValue = <<"0","0",":","0","0">>
              THEN StatusInfo(strValue, <<"#","d","9","d","9","d","9">>, <<"d","e","f","a","u","l","t">>)
              ELSE StatusInfo(strValue, <<"#","0","0","7","0","C","0">>,
                              <<"p","r","o","c","e","s","s","i","n","g">>)
         ELSE IF IsDayMonthText(strValue)
         THEN StatusInfo(strValue, <<"#","7","0","3","0","A","0">>, <<"p","u","r","p","l","e">>)
         ELSE IF strValue = <<"N","A">>
         THEN StatusInfo(<<"N","A">>, <<"#","d","9","d","9","d","9">>, <<"d","e","f","a","u","l","t">>)
         ELSE StatusInfo(strValue, <<"#","0","0","7","0","C","0">>, <<"i","n","f","o">>)

----------------------------------------------------------------------------
(* Row records: JavaScript objects, as functions from property names       *)
(* (character sequences) to values                                         *)

EmptyObject == [k \in {} |-> Undefined]

\* SetProp that keeps the value of a key that is already set
SetPropKeepFirst(obj, key, value) ==
    IF key \in DOMAIN obj THEN obj
    ELSE [k \in (DOMAIN obj) \cup {key} |-> IF k = key THEN value ELSE obj[k]]

\* obj[key] = value
SetProp(obj, key, value) ==
    [k \in (DOMAIN obj) \cup {key} |-> IF k = key THEN value ELSE obj[k]]

\* obj[key]
GetProp(obj, key) == IF key \in DOMAIN obj THEN obj[key] ELSE Undefined

SNoKey == <<"S",".","N","o">>

JobDetailsKey == <<"J","o","b"," ","D","e","t","a","i","l","s">>

CommentsKey == <<"C","o","m","m","e","n","t","s">>

IdKey == <<"i","d">>

RowNumberKey == <<"r","o","w","N","u","m","b","e","r">>

UploadDateKey == <<"u","p","l","o","a","d","D","a","t","e">>

\* new Date().toISOString(): the clock is not modelled, every timestamp of
\* a request is the same ISO text
NowISO == Str(<<"2","0","2","4","-","0","1","-","0","1","T",
                "0","0",":","0","0",":","0","0",".","0","0","0","Z">>)

----------------------------------------------------------------------------
(* Normalisation of the first sheet                                        *)
(* A worksheet is [k, sc, hdr, rows]: k = "sheet" for a sheet with a       *)
(* range, sc = range.s.c, hdr the cells of row range.s.r, rows the cells   *)
(* of the rows range.s.r + 1 .. range.e.r.                                 *)

\* headers with the placeholder numbered from the start of the range
headersFromRangeStart(ws) ==
    [i \in 1..Len(ws.hdr) |->
        Or(getFormattedCellValue(ws.hdr[i]),
           Str(<<"C","o","l","u","m","n">> \o NatDigits(i)))]

\* Extract headers from first row
headers(ws) ==
    [i \in 1..Len(ws.hdr) |->
        Or(getFormattedCellValue(ws.hdr[i]),
           Str(<<"C","o","l","u","m","n">> \o NatDigits(ws.sc + i)))]

\* cleanHeader with the comments rule tried first
cleanHeaderCommentsFirst(header) ==
    LET lower == ToLowerCase(header) IN
    IF Includes(lower, <<"c","o","m","m","e","n","t">>)
    THEN CommentsKey
    ELSE IF Includes(lower, <<"s",".","n","o">>) \/ Includes(lower, <<"s"," ","n","o">>)
       \/ lower = <<"s",".","n","o">>
    THEN SNoKey
    ELSE IF Includes(lower, <<"j","o","b">>) /\ Includes(lower, <<"d","e","t","a","i","l">>)
    THEN JobDetailsKey
    ELSE header

\* Map the header to a clean name
cleanHeader(header) ==
    LET lower == ToLowerCase(header) IN
    IF Includes(lower, <<"s",".","n","o">>) \/ Includes(lower, <<"s"," ","n","o">>)
       \/ lower = <<"s",".","n","o">>
    THEN SNoKey
    ELSE IF Includes(lower, <<"j","o","b">>) /\ Includes(lower, <<"d","e","t","a","i","l">>)
    THEN JobDetailsKey
    ELSE IF Includes(lower, <<"c","o","m","m","e","n","t">>)
    THEN CommentsKey
    ELSE header

\* ProcessCell with status info for every column but S.No and Job Details
ProcessCellStatusForComments(rowData, header, cell) ==
    LET cellValue == getFormattedCellValue(cell) IN
    IF ~Truthy(header) THEN [threw |-> FALSE, rowData |-> rowData]
    ELSE IF header.t # "string" THEN [threw |-> TRUE, rowData |-> rowData]
    ELSE IF StartsWith(header.s, <<"C","o","l","u","m","n">>)
    THEN [threw |-> FALSE, rowData |-> rowData]
    ELSE LET clean == cleanHeader(header.s)
             stored == SetProp(rowData, clean, Or(cellValue, Str(<<>>)))
             statusInfo == getStatusInfo(cellValue)
         IN  IF clean \notin {SNoKey, JobDetailsKey}
             THEN [threw |-> FALSE,
                   rowData |->
                     SetProp(SetProp(SetProp(stored,
                        clean \o <<"_","s","t","a","t","u","s">>, Str(statusInfo.status)),
                        clean \o <<"_","c","o","l","o","r">>, Str(statusInfo.color)),
                        clean \o <<"_","t","y","p","e">>, Str(statusInfo.type))]
             ELSE [threw |-> FALSE, rowData |-> stored]

\* ProcessCell with nothing stored for an empty cell
ProcessCellSkipEmpty(rowData, header, cell) ==
    LET cellValue == getFormattedCellValue(cell) IN
    IF ~Truthy(header) THEN [threw |-> FALSE, rowData |-> rowData]
    ELSE IF header.t # "string" THEN [threw |-> TRUE, rowData |-> rowData]
    ELSE IF StartsWith(header.s, <<"C","o","l","u","m","n">>) \/ ~Truthy(cellValue)
    THEN [threw |-> FALSE, rowData |-> rowData]
    ELSE LET clean == cleanHeader(header.s)
             stored == SetProp(rowData, clean, cellValue)
             statusInfo == getStatusInfo(cellValue)
         IN  IF clean \notin {SNoKey, JobDetailsKey, CommentsKey}
             THEN [threw |-> FALSE,
                   rowData |->
                     SetProp(SetProp(SetProp(stored,
                        clean \o <<"_","s","t","a","t","u","s">>, Str(statusInfo.status)),
                        clean \o <<"_","c","o","l","o","r">>, Str(statusInfo.color)),
                        clean \o <<"_","t","y","p","e">>, Str(statusInfo.type))]
             ELSE [threw |-> FALSE, rowData |-> stored]

\* the body of the column loop for one cell: the row record after it, or
\* threw = TRUE when header.startsWith is not a function (the header is
\* not a string)
ProcessCell(rowData, header, cell) ==
    LET cellValue == getFormattedCellValue(cell) IN
    IF ~Truthy(header) THEN [threw |-> FALSE, rowData |-> rowData]
    ELSE IF header.t # "string" THEN [threw |-> TRUE, rowData |-> rowData]
    ELSE IF StartsWith(header.s, <<"C","o","l","u","m","n">>)
    THEN [threw |-> FALSE, rowData |-> rowData]
    ELSE LET clean == cleanHeader(header.s)
             stored == SetProp(rowData, clean, Or(cellValue, Str(<<>>)))
             statusInfo == getStatusInfo(cellValue)
         IN  IF clean \notin {SNoKey, JobDetailsKey, CommentsKey}
             THEN [threw |-> FALSE,
                   rowData |->
                     SetProp(SetProp(SetProp(stored,
                        clean \o <<"_","s","t","a","t","u","s">>, Str(statusInfo.status)),
                        clean \o <<"_","c","o","l","o","r">>, Str(statusInfo.color)),
                        clean \o <<"_","t","y","p","e">>, Str(statusInfo.type))]
             ELSE [threw |-> FALSE, rowData |-> stored]

\* Process each column for this row (columns i .. of the range)
RECURSIVE ProcessColumns(_, _, _, _)
ProcessColumns(hs, cells, i, rowData) ==
    IF i > Len(hs) THEN [threw |-> FALSE, rowData |-> rowData]
    ELSE LET step == ProcessCell(rowData, hs[i], cells[i]) IN
         IF step.threw THEN step
         ELSE ProcessColumns(hs, cells, i + 1, step.rowData)

\* Admitted without the test that the job details are not blank
AdmittedNoTrim(rowData) ==
    LET sNo == GetProp(rowData, SNoKey)
        jobDetails == GetProp(rowData, JobDetailsKey)
    IN  /\ Truthy(sNo)
        /\ Truthy(jobDetails)
        /\ ~IsNaN(ToNumber(sNo))

\* Only include rows with valid S.No and Job Details
Admitted(rowData) ==
    LET sNo == GetProp(rowData, SNoKey)
        jobDetails == GetProp(rowData, JobDetailsKey)
    IN  /\ Truthy(sNo)
        /\ Truthy(jobDetails)
        /\ ~IsNaN(ToNumber(sNo))
        /\ Trim(StringOf(jobDetails)) # <<>>

\* AddMetadata with the id built from the parsed number
AddMetadataIdFromNumber(rowData) ==
    LET sNo == GetProp(rowData, SNoKey) IN
    SetProp(SetProp(SetProp(rowData,
        IdKey, Str(<<"r","o","w","-">> \o StringOf(ToNumber(sNo)))),
        RowNumberKey, ToNumber(sNo)),
        UploadDateKey, NowISO)

\* Add metadata
AddMetadata(rowData) ==
    LET sNo == GetProp(rowData, SNoKey) IN
    SetProp(SetProp(SetProp(rowData,
        IdKey, Str(<<"r","o","w","-">> \o StringOf(sNo))),
        RowNumberKey, ToNumber(sNo)),
        UploadDateKey, NowISO)

\* Process each data row (rows r .. of the sheet), appending to jsonData
RECURSIVE ProcessRows(_, _, _, _)
ProcessRows(hs, rows, r, acc) ==
    IF r > Len(rows) THEN [threw |-> FALSE, jsonData |-> acc]
    ELSE LET cols == ProcessColumns(hs, rows[r], 1, EmptyObject) IN
         IF cols.threw THEN [threw |-> TRUE, jsonData |-> acc]
         ELSE ProcessRows(hs, rows, r + 1,
                          IF Admitted(cols.rowData)
                          THEN Append(acc, AddMetadata(cols.rowData))
                          ELSE acc)

\* compare with its operands exchanged
compareDescending(a, b) ==
    Minus(Or(GetProp(b, RowNumberKey), Num(0)), Or(GetProp(a, RowNumberKey), Num(0)))

\* (a, b) => (a.rowNumber || 0) - (b.rowNumber || 0)
compare(a, b) ==
    Minus(Or(GetProp(a, RowNumberKey), Num(0)), Or(GetProp(b, RowNumberKey), Num(0)))

\* the comparator's result is > 0 (NaN counts as 0)
Positive(d) == d.x = "inf" \/ (d.x = "fin" /\ d.n > 0)

\* InsertSorted with the row put before the elements that compare equal
\* to it
RECURSIVE InsertSortedBeforeEqual(_, _)
InsertSortedBeforeEqual(sorted, row) ==
    IF sorted # <<>> /\ ~Positive(compare(row, sorted[Len(sorted)]))
    THEN Append(InsertSortedBeforeEqual(SubSeq(sorted, 1, Len(sorted) - 1), row),
                sorted[Len(sorted)])
    ELSE Append(sorted, row)

\* insert row into the sorted prefix, after every element that does not
\* compare greater than it
RECURSIVE InsertSorted(_, _)
InsertSorted(sorted, row) ==
    IF sorted # <<>> /\ Positive(compare(sorted[Len(sorted)], row))
    THEN Append(InsertSorted(SubSeq(sorted, 1, Len(sorted) - 1), row),
                sorted[Len(sorted)])
    ELSE Append(sorted, row)

\* Array.prototype.sort with the comparator: a stable sort
RECURSIVE SortFrom(_, _, _)
SortFrom(rows, i, sorted) ==
    IF i > Len(rows) THEN sorted
    ELSE SortFrom(rows, i + 1, InsertSorted(sorted, rows[i]))

\* Sort by S.No to ensure proper order
sort(rows) == SortFrom(rows, 1, <<>>)

----------------------------------------------------------------------------
(* JSON                                                                    *)

\* JSON.stringify of a value followed by JSON.parse: NaN and the infinities
\* are written as null
JSONValue(v) == IF v.t = "number" /\ v.x # "fin" THEN Null ELSE v

\* JSON.parse(JSON.stringify(obj)) of a row record: properties whose value
\* is undefined are left out
JSONRoundTrip(obj) ==
    [k \in {q \in DOMAIN obj : obj[q] # Undefined} |-> JSONValue(obj[k])]

----------------------------------------------------------------------------
(* Inputs: the workbooks a request's file may decode to                    *)

\* the largest number of data rows of a sheet
MaxRows == 2

\* a text cell
W(chars) == Cell(Str(chars), Str(chars))

\* a numeric cell with its formatted text
N(chars, i) == Cell(Str(chars), Int2Num(i))

\* a cell without formatted text
Raw(v) == Cell(Undefined, v)

Column(h, vals) == [h |-> h, vals |-> vals]

Layout(sc, cols) == [sc |-> sc, cols |-> cols]

SNoHeader == W(<<"S",".","N","o">>)

JobHeader == W(<<"J","o","b"," ","D","e","t","a","i","l","s">>)

Fix == W(<<"F","i","x">>)

Blank == W(<<" "," ">>)

One == N(<<"1">>, 1)

Two == N(<<"2">>, 2)

\* serial numbers as text: equal numbers with different texts, numeric
\* against alphabetic order, text that is not a number, Infinity
MainLayout ==
    Layout(0, <<Column(SNoHeader, {AbsentCell, One, N(<<"0","1">>, 1),
                                   N(<<"1","0">>, 10), W(<<"a","b","c">>),
                                   W(<<"I","n","f","i","n","i","t","y">>)}),
                Column(JobHeader, {Fix, Blank})>>)

\* blank text and cells without formatted text
RawLayout ==
    Layout(0, <<Column(SNoHeader, {Raw(Int2Num(3)), Raw(Num(0)), Raw(True), Blank}),
                Column(JobHeader, {Raw(Int2Num(7)), Raw(False), AbsentCell})>>)

\* a header cell holding a number without formatted text
NumberHeaderLayout ==
    Layout(0, <<Column(SNoHeader, {One, Two}), Column(JobHeader, {Fix}),
                Column(Raw(Int2Num(2024)), {AbsentCell, W(<<"o","k">>)})>>)

\* a status column
StatusLayout ==
    Layout(0, <<Column(SNoHeader, {One, Two}), Column(JobHeader, {Fix}),
                Column(W(<<"S","t","a","t","u","s">>),
                       {AbsentCell, W(<<" ","a","c","t","i","v","e">>),
                        Raw(Num(Scale \div 2))})>>)

\* a range starting at the second column, an empty header cell, other
\* spellings of the three text headers
SpellingLayout ==
    Layout(1, <<Column(AbsentCell, {W(<<"x">>)}),
                Column(W(<<"O","l","d"," ","s"," ","n","o">>), {One, Two}),
                Column(W(<<"J","O","B"," "," "," ","d","e","t","a","i","l">>), {Fix, Blank}),
                Column(W(<<"c","o","m","m","e","n","t">>), {AbsentCell, Fix})>>)

\* two serial-number columns and a header that begins with "Column"
DuplicateLayout ==
    Layout(0, <<Column(SNoHeader, {One, Two}), Column(JobHeader, {Fix}),
                Column(W(<<"s",".","n","o">>), {AbsentCell, Two}),
                Column(W(<<"C","o","l","u","m","n"," ","A">>), {AbsentCell, Fix})>>)

\* a sheet without a job-details column
NoJobLayout ==
    Layout(0, <<Column(SNoHeader, {One}),
                Column(W(<<"C","o","m","m","e","n","t","s">>), {Fix})>>)

Layouts == {MainLayout, RawLayout, NumberHeaderLayout, StatusLayout,
            SpellingLayout, DuplicateLayout, NoJobLayout}

\* the rows a layout allows: one cell of each column's values
RECURSIVE RowsOf(_, _)
RowsOf(cols, i) ==
    IF i > Len(cols) THEN {<<>>}
    ELSE {<<c>> \o rest : c \in cols[i].vals, rest \in RowsOf(cols, i + 1)}

Sheet(sc, hdr, rows) == [k |-> "sheet", sc |-> sc, hdr |-> hdr, rows |-> rows]

SheetsOf(layout) ==
    LET hdr == [i \in 1..Len(layout.cols) |-> layout.cols[i].h]
        rowSet == RowsOf(layout.cols, 1)
    IN  {Sheet(layout.sc, hdr, rows) :
            rows \in UNION {[1..r -> rowSet] : r \in 0..MaxRows}}

\* readFile has not been called
Unread == [k |-> "unread", sc |-> 0, hdr |-> <<>>, rows |-> <<>>]

\* what XLSX.readFile makes of the file: it throws ("corrupt"), the workbook
\* has no sheet ("nosheet"), the first sheet has no '!ref' ("noref"), or
\* the first sheet has a range
Failing(k) == [k |-> k, sc |-> 0, hdr |-> <<>>, rows |-> <<>>]

Workbooks ==
    {Failing("corrupt"), Failing("nosheet"), Failing("noref")}
    \cup UNION {SheetsOf(l) : l \in Layouts}

----------------------------------------------------------------------------
(* Requests                                                                *)

allowedMimes == {"application/vnd.openxmlformats-officedocument.spreadsheetml.sheet",
                 "application/vnd.ms-excel",
                 "text/csv"}

MimeTypes == allowedMimes \cup {"text/plain"}

\* 10MB limit
fileSize == 10 * 1024 * 1024

FileSizes == {fileSize, fileSize + 1}

\* body: "malformed" (the multipart parser fails), "nofile" (no file in
\* field 'excel') or "file"
Request(entry, method, body, mime, size) ==
    [entry |-> entry, method |-> method, body |-> body, mime |-> mime, size |-> size]

NoRequest == Request("", "", "", "", 0)

Requests ==
    {Request(e, "POST", "file", m, z) :
        e \in {"express", "serverless"}, m \in MimeTypes, z \in FileSizes}
    \cup {Request(e, "POST", b, "", 0) :
        e \in {"express", "serverless"}, b \in {"malformed", "nofile"}}
    \cup {Request("serverless", m, "nofile", "", 0) : m \in {"GET", "OPTIONS"}}

NoError == [multer |-> FALSE, code |-> "", message |-> ""]

Error(message) == [multer |-> FALSE, code |-> "", message |-> message]

MulterError(code) == [multer |-> TRUE, code |-> code, message |-> "File too large"]

----------------------------------------------------------------------------
(* Responses                                                               *)

NoResponse == [status |-> 0, keys |-> {}, data |-> <<>>, totalRows |-> 0,
               error |-> "", details |-> ""]

\* res.status(200).end()
EndResponse(status) == [NoResponse EXCEPT !.status = status]

\* res.status(status).json({ error })
ErrorResponse(status, error) ==
    [NoResponse EXCEPT !.status = status, !.keys = {"error"}, !.error = error]

\* res.status(status).json({ error, details })
DetailedResponse(status, error, details) ==
    [NoResponse EXCEPT !.status = status, !.keys = {"error", "details"},
                       !.error = error, !.details = details]

\* SuccessResponse with the header row counted in totalRows
SuccessResponseCountsHeader(data) ==
    [NoResponse EXCEPT !.status = 200,
                       !.keys = {"success", "data", "totalRows", "fileName", "uploadDate"},
                       !.data = data, !.totalRows = Len(data) + 1]

\* res.json({ success: true, data, totalRows, fileName, uploadDate })
SuccessResponse(data) ==
    [NoResponse EXCEPT !.status = 200,
                       !.keys = {"success", "data", "totalRows", "fileName", "uploadDate"},
                       !.data = data, !.totalRows = Len(data)]

\* the outcome of the try block after the row loop: the TypeError of the
\* loop, or the rows sorted
SortProcessed(p) ==
    IF p.threw
    THEN [threw |-> TRUE, message |-> "header.startsWith is not a function",
          jsonData |-> p.jsonData]
    ELSE [threw |-> FALSE, message |-> "", jsonData |-> sort(p.jsonData)]

\* ReadAndNormalize with a sheet without range read as an empty sheet
ReadAndNormalizeDefaultRange(wb) ==
    CASE wb.k = "corrupt" -> [threw |-> TRUE, message |-> "Unsupported file", jsonData |-> <<>>]
      [] wb.k = "nosheet" ->
         [threw |-> TRUE, message |-> "Cannot read properties of undefined (reading '!ref')",
          jsonData |-> <<>>]
      [] wb.k = "noref" -> [threw |-> FALSE, message |-> "", jsonData |-> <<>>]
      [] OTHER -> SortProcessed(ProcessRows(headers(wb), wb.rows, 1, <<>>))

\* the try block from XLSX.readFile to the sort: the exception's message,
\* or the sorted rows
ReadAndNormalize(wb) ==
    CASE wb.k = "corrupt" -> [threw |-> TRUE, message |-> "Unsupported file", jsonData |-> <<>>]
      [] wb.k = "nosheet" ->
         [threw |-> TRUE, message |-> "Cannot read properties of undefined (reading '!ref')",
          jsonData |-> <<>>]
      [] wb.k = "noref" ->
         [threw |-> TRUE, message |-> "Cannot read properties of undefined (reading 'indexOf')",
          jsonData |-> <<>>]
      [] OTHER -> SortProcessed(ProcessRows(headers(wb), wb.rows, 1, <<>>))

\* the response at the end of the try block, or that of the catch block
ProcessedResponse(out) ==
    IF out.threw
    THEN DetailedResponse(500, "Failed to process Excel file", out.message)
    ELSE SuccessResponse(out.jsonData)

----------------------------------------------------------------------------
(* The server                                                              *)

\* getStatusInfo has not been called
NoStatusInfo == StatusInfo(<<>>, <<>>, <<>>)

\* getStatusInfo is not called on its own
StatusIdle ==
    /\ statusArg = Undefined
    /\ statusResult = NoStatusInfo

\* a File of the browser: the extension of its name, its type and its size
File(ext, type, size) == [ext |-> ext, type |-> type, size |-> size]

NoFile == File("", "", 0)

\* the client's form is not used
ClientIdle ==
    /\ clientPc = "idle"
    /\ file = NoFile
    /\ posted = NoFile
    /\ shownError = ""

\* no file is stored and no requests run side by side
ConcurrentIdle ==
    /\ invocations = <<>>
    /\ disk = <<>>

\* no header row is looked at on its own
HeaderIdle ==
    /\ firstRow = Unread
    /\ labels = <<>>
    /\ fields = <<>>

\* getFormattedCellValue has not returned
NoCellValue == [t |-> "pending", x |-> "", s |-> <<>>, n |-> 0]

\* no cell is resolved on its own
CellIdle ==
    /\ cellArg = AbsentCell
    /\ cellResult = NoCellValue

\* no workbook is given to both servers
EquivIdle ==
    /\ book = Unread
    /\ expressAnswer = NoResponse
    /\ serverlessAnswer = NoResponse

\* the scroll container, the table container, the table body and the table
Elements == {"scrollContainer", "tableElement", "tableBody", "antTable"}

\* the inline style of an element: the properties downloadAsImage sets
InlineStyle(height, maxHeight, overflow, width, minWidth) ==
    [height |-> height, maxHeight |-> maxHeight, overflow |-> overflow,
     width |-> width, minWidth |-> minWidth]

NoStyle == InlineStyle("", "", "", "", "")

\* a page: whether tableRef.current is set, the elements querySelector
\* finds and their inline styles
Page(ref, found, original) == [ref |-> ref, found |-> found, original |-> original]

NoPage == Page(FALSE, {}, [e \in Elements |-> NoStyle])

\* no image is generated
CaptureIdle ==
    /\ capturePc = "idle"
    /\ page = NoPage
    /\ style = NoPage.original
    /\ saved = NoPage.original
    /\ captureMode = FALSE
    /\ isGeneratingImage = FALSE

\* no request has been received
ServerIdle ==
    /\ req = NoRequest
    /\ pc = "idle"
    /\ err = NoError
    /\ tmpFile = "none"
    /\ worksheet = Unread
    /\ res = NoResponse
    /\ responses = 0

Init ==
    /\ ServerIdle
    /\ CaptureIdle
    /\ EquivIdle
    /\ CellIdle
    /\ StatusIdle
    /\ ClientIdle
    /\ ConcurrentIdle
    /\ HeaderIdle

\* Respond followed by a second response to the same request
RespondTwice(r) ==
    /\ res' = r
    /\ responses' = responses + 2
    /\ pc' = "done"

\* send a response and end the request
Respond(r) ==
    /\ res' = r
    /\ responses' = responses + 1
    /\ pc' = "done"

\* a request reaches one of the two entry points
Receive ==
    /\ pc = "idle"
    /\ \E r \in Requests :
        /\ req' = r
        /\ pc' = IF r.entry = "express" THEN "multer" ELSE "handler"
    /\ UNCHANGED <<err, tmpFile, worksheet, res, responses>>
    /\ UNCHANGED restVars

\* upload.single('excel'): fileFilter, the fileSize limit and diskStorage.
\* A rejected file is not stored; a file over the limit is removed again.
MulterUpload ==
    /\ pc = "multer"
    /\ CASE req.body = "malformed" ->
            /\ err' = Error("Unexpected end of form")
            /\ pc' = "errorMiddleware"
            /\ UNCHANGED tmpFile
         [] req.body = "nofile" ->
            /\ pc' = "route"
            /\ UNCHANGED <<err, tmpFile>>
         [] req.body = "file" /\ req.mime \notin allowedMimes ->
            /\ err' = Error("Invalid file type. Only Excel and CSV files are allowed.")
            /\ pc' = "errorMiddleware"
            /\ UNCHANGED tmpFile
         [] req.body = "file" /\ req.mime \in allowedMimes /\ req.size > fileSize ->
            /\ err' = MulterError("LIMIT_FILE_SIZE")
            /\ tmpFile' = "deleted"
            /\ pc' = "errorMiddleware"
         [] OTHER ->
            /\ tmpFile' = "written"
            /\ pc' = "route"
            /\ UNCHANGED err
    /\ UNCHANGED <<req, worksheet, res, responses>>
    /\ UNCHANGED restVars

\* Error handling middleware
ErrorMiddleware ==
    /\ pc = "errorMiddleware"
    /\ IF err.multer /\ err.code = "LIMIT_FILE_SIZE"
       THEN Respond(ErrorResponse(400, "File too large. Maximum size is 10MB."))
       ELSE Respond(DetailedResponse(500, "Internal server error", err.message))
    /\ UNCHANGED <<req, err, tmpFile, worksheet>>
    /\ UNCHANGED restVars

\* app.post('/api/upload-excel', ...): the route handler, which runs to
\* completion
ExpressRoute ==
    /\ pc = "route"
    /\ IF req.body # "file"
       THEN /\ Respond(ErrorResponse(400, "No file uploaded"))
            /\ UNCHANGED <<tmpFile, worksheet>>
       ELSE \E wb \in Workbooks :
            /\ worksheet' = wb
            /\ tmpFile' = "deleted"
            /\ Respond(ProcessedResponse(ReadAndNormalize(wb)))
    /\ UNCHANGED <<req, err>>
    /\ UNCHANGED restVars

\* export default async function handler(req, res): up to the await
ServerlessHandler ==
    /\ pc = "handler"
    /\ CASE req.method = "OPTIONS" -> Respond(EndResponse(200))
         [] req.method # "OPTIONS" /\ req.method # "POST" ->
            Respond(ErrorResponse(405, "Method not allowed"))
         [] OTHER -> /\ pc' = "parsing"
                     /\ UNCHANGED <<res, responses>>
    /\ UNCHANGED <<req, err, tmpFile, worksheet>>
    /\ UNCHANGED restVars

\* form.parse(req, callback): multiparty stores the file of the form in a
\* temporary file and settles parsePromise
MultipartyParse ==
    /\ pc = "parsing"
    /\ CASE req.body = "malformed" ->
            /\ err' = Error("stream ended unexpectedly")
            /\ UNCHANGED tmpFile
         [] req.body = "file" ->
            /\ tmpFile' = "written"
            /\ UNCHANGED err
         [] OTHER -> UNCHANGED <<err, tmpFile>>
    /\ pc' = "resume"
    /\ UNCHANGED <<req, worksheet, res, responses>>
    /\ UNCHANGED restVars

\* the handler after the await, which runs to completion
ServerlessResume ==
    /\ pc = "resume"
    /\ CASE err # NoError ->
            /\ Respond(DetailedResponse(500, "Failed to process Excel file", err.message))
            /\ UNCHANGED <<tmpFile, worksheet>>
         [] err = NoError /\ req.body # "file" ->
            /\ Respond(ErrorResponse(400, "No file uploaded"))
            /\ UNCHANGED <<tmpFile, worksheet>>
         [] err = NoError /\ req.body = "file" /\ req.mime \notin allowedMimes ->
            /\ tmpFile' = "deleted"
            /\ Respond(ErrorResponse(400, "Invalid file type. Only Excel and CSV files are allowed."))
            /\ UNCHANGED worksheet
         [] OTHER ->
            \E wb \in Workbooks :
            /\ worksheet' = wb
            /\ Respond(ProcessedResponse(ReadAndNormalize(wb)))
            \* fs.unlinkSync runs at the end of the try block only
            /\ tmpFile' = IF res'.status = 200 THEN "deleted" ELSE tmpFile
    /\ UNCHANGED <<req, err>>
    /\ UNCHANGED restVars

\* the request is over; the server waits for the next one
Finish ==
    /\ pc = "done"
    /\ req' = NoRequest
    /\ pc' = "idle"
    /\ err' = NoError
    /\ tmpFile' = "none"
    /\ worksheet' = Unread
    /\ res' = NoResponse
    /\ responses' = 0
    /\ UNCHANGED restVars

Next ==
    \/ Receive
    \/ MulterUpload
    \/ ErrorMiddleware
    \/ ExpressRoute
    \/ ServerlessHandler
    \/ MultipartyParse
    \/ ServerlessResume
    \/ Finish

Spec == Init /\ [][Next]_vars

\* the steps of the server between a request and its response
Handling ==
    \/ MulterUpload
    \/ ErrorMiddleware
    \/ ExpressRoute
    \/ ServerlessHandler
    \/ MultipartyParse
    \/ ServerlessResume

\* the event loop runs every middleware, handler and callback that is
\* ready; requests need not arrive
FairSpec == Spec /\ WF_vars(Handling)

----------------------------------------------------------------------------
(* Properties                                                              *)

\* the request has been answered
Done == pc = "done"

\* an upload carrying a file (as opposed to no file, or a body that the
\* multipart parser rejects)
HasFile == req.body = "file"

\* the first sheet was decoded and has a range
Decoded == worksheet.k = "sheet"

\* the request ended in the success response for a decoded sheet
Succeeded == Done /\ Decoded /\ res.status = 200 /\ "success" \in res.keys

ClientError == res.status \in 400..499

ServerError == res.status \in 500..599

DataRows == 1..Len(worksheet.rows)

\* the fields of data row r of the decoded sheet, before admission
RowRecord(r) ==
    ProcessColumns(headers(worksheet), worksheet.rows[r], 1, EmptyObject).rowData

\* the record that data row r contributes when it is admitted
OutputOf(r) == AddMetadata(RowRecord(r))

\* the admission predicate in the words of the specification: the serial
\* number is present, non-empty and parses as a number; the job details
\* are present and not blank after trimming
FieldsValid(rowData) ==
    /\ SNoKey \in DOMAIN rowData
    /\ StringOf(rowData[SNoKey]) # <<>>
    /\ ~IsNaN(ToNumber(rowData[SNoKey]))
    /\ JobDetailsKey \in DOMAIN rowData
    /\ Trim(StringOf(rowData[JobDetailsKey])) # <<>>

SerialText(r) == StringOf(GetProp(RowRecord(r), SNoKey))

JobText(r) == StringOf(GetProp(RowRecord(r), JobDetailsKey))

\* C1: a data row appears in the data of the upload response iff its 'S.No'
\* field is present, non-empty and parses as a number and its 'Job Details'
\* field is present and not blank after trimming; every row of the data
\* comes from such a data row.
C1_AdmissionIff ==
    Succeeded =>
        /\ \A r \in DataRows :
              FieldsValid(RowRecord(r))
              <=> (\E i \in 1..Len(res.data) : res.data[i] = OutputOf(r))
        /\ \A i \in 1..Len(res.data) :
              \E r \in DataRows : FieldsValid(RowRecord(r)) /\ res.data[i] = OutputOf(r)

\* C1 witness: a sheet with a row of non-numeric serial number and a row
\* of blank job details has been answered without either
C1_Witness ==
    /\ Succeeded
    /\ Len(res.data) = 0
    /\ \E r \in DataRows : SerialText(r) = <<"a","b","c">> /\ JobText(r) = <<"F","i","x">>
    /\ \E r \in DataRows : SerialText(r) = <<"1","0">> /\ JobText(r) = <<" "," ">>

rowNumber(row) == GetProp(row, RowNumberKey)

\* C2: the rows of an upload response are in non-decreasing order of
\* rowNumber.
C2_SortedByRowNumber ==
    Succeeded =>
        \A i \in 1..(Len(res.data) - 1) :
            NumLeq(rowNumber(res.data[i]), rowNumber(res.data[i + 1]))

\* C2 witness: two admitted rows stood in the sheet in decreasing order of
\* serial number
C2_Witness ==
    /\ Succeeded
    /\ Len(worksheet.rows) = 2
    /\ Len(res.data) = 2
    /\ ~NumLeq(ToNumber(GetProp(RowRecord(1), SNoKey)),
               ToNumber(GetProp(RowRecord(2), SNoKey)))

\* C3: when a request finishes, the temporary file written for it has been
\* deleted, on every exit path of both entry points.
C3_TempFileDeleted == Done => tmpFile # "written"

\* C4: an upload without a file, or with a file whose MIME type is not
\* allowed, gets a 400-class response at both entry points and its rows are
\* never normalised.
C4_RejectedInputIs400 ==
    (Done /\ req.method = "POST"
          /\ (req.body = "nofile" \/ (HasFile /\ req.mime \notin allowedMimes)))
    => (ClientError /\ ~Decoded)

\* C5: an upload whose file is larger than 10MB gets a 400-class response
\* and is never decoded, at both entry points (stated for a file of an
\* allowed type, where the size limit is what decides).
C5_OversizeIs400 ==
    (Done /\ HasFile /\ req.mime \in allowedMimes /\ req.size > fileSize)
    => (ClientError /\ worksheet = Unread)

\* C6: when the decoder fails or the first sheet has no range, the one
\* response is 500-class with an error and a details string, no row is
\* normalised and no success response is sent.
C6_DecodeFailureIs500 ==
    (Done /\ worksheet.k \in {"corrupt", "nosheet", "noref"})
    => /\ ServerError
       /\ {"error", "details"} \subseteq res.keys
       /\ res.error # "" /\ res.details # ""
       /\ "success" \notin res.keys
       /\ res.data = <<>> /\ res.totalRows = 0
       /\ responses = 1

\* C6 witness: a request whose first sheet has no range was answered, and
\* so was one whose file the decoder cannot read
C6_Witness ==
    /\ Done
    /\ worksheet.k \in {"noref", "corrupt"}
    /\ res.status = 500

\* C7: for every decoded sheet with a range, whatever its cells hold, the
\* request ends in the success response.
C7_NormalizeNeverThrows == (Done /\ Decoded) => res.status = 200

id(row) == GetProp(row, IdKey)

IdFromSerial(row) ==
    id(row) = Str(<<"r","o","w","-">> \o StringOf(GetProp(row, SNoKey)))

\* C8 as stated: id is "row-" followed by the serial number, and two rows
\* of one response have the same id iff they have the same rowNumber.
C8_IdIffRowNumber ==
    Succeeded =>
        \A i, j \in 1..Len(res.data) :
            /\ IdFromSerial(res.data[i])
            /\ (rowNumber(res.data[i]) = rowNumber(res.data[j]))
               <=> (id(res.data[i]) = id(res.data[j]))

\* C8 amended: id is "row-" followed by the text of the serial number, and
\* two rows of one response with different rowNumber have different ids
\* (rows with the same rowNumber have different ids when the texts of
\* their serial numbers differ, as "1" and "01").
C8_IdFromSerialText ==
    Succeeded =>
        \A i, j \in 1..Len(res.data) :
            /\ IdFromSerial(res.data[i])
            /\ (rowNumber(res.data[i]) # rowNumber(res.data[j]))
               => (id(res.data[i]) # id(res.data[j]))

\* C8 witness: a response with two rows of different rowNumber, one of
\* them with a serial number whose text is not the number's own
C8_Witness ==
    /\ Succeeded
    /\ Len(res.data) = 2
    /\ rowNumber(res.data[1]) # rowNumber(res.data[2])
    /\ \E i \in 1..2 : GetProp(res.data[i], SNoKey) = Str(<<"0","1">>)

\* C9: in a success response totalRows is the length of data, which is the
\* number of data rows that satisfy the admission predicate; no other
\* count is reported, and an error response for a decoded sheet is never
\* due to a row (only to a header cell that is not text).
C9_TotalRowsCountsAdmitted ==
    /\ Succeeded =>
          /\ res.totalRows = Len(res.data)
          /\ Len(res.data) = Cardinality({r \in DataRows : FieldsValid(RowRecord(r))})
          /\ res.keys = {"success", "data", "totalRows", "fileName", "uploadDate"}
    /\ (Done /\ Decoded /\ res.status # 200)
          => \E i \in 1..Len(worksheet.hdr) : headers(worksheet)[i].t # "string"

\* C9 witness: a success response for a sheet of which one row was
\* admitted and one was rejected
C9_Witness ==
    /\ Succeeded
    /\ Len(worksheet.rows) = 2
    /\ res.totalRows = 1
    /\ \E r \in DataRows : ~FieldsValid(RowRecord(r))

\* C10: writing the rows of a response as JSON and parsing them back gives
\* rows with the same field names and the same values.
C10_JSONRoundTrip ==
    Succeeded => \A i \in 1..Len(res.data) : JSONRoundTrip(res.data[i]) = res.data[i]

----------------------------------------------------------------------------
(* Columns and fields of the row records                                   *)

\* the resolved value of the header cell of column i of the range
HeaderValue(i) == getFormattedCellValue(worksheet.hdr[i])

\* the placeholder of column i of the range: `Column${col + 1}`
Placeholder(i) == <<"C","o","l","u","m","n">> \o NatDigits(worksheet.sc + i)

HeaderColumns == 1..Len(worksheet.hdr)

FieldName(i) == cleanHeader(StringOf(HeaderValue(i)))

\* `${cleanHeader}_status`, `${cleanHeader}_color`, `${cleanHeader}_type`
SubKeys(name) ==
    {name \o <<"_","s","t","a","t","u","s">>, name \o <<"_","c","o","l","o","r">>,
     name \o <<"_","t","y","p","e">>}

\* C20: in every row record the three status sub-keys of a field are
\* present exactly when the field's name is not S.No, Job Details or
\* Comments; those three fields carry only their raw value.
C20_StatusKeysIffStatusField ==
    Succeeded =>
        \A k \in 1..Len(res.data), i \in HeaderColumns :
            FieldName(i) \in DOMAIN res.data[k] =>
                IF FieldName(i) \in {SNoKey, JobDetailsKey, CommentsKey}
                THEN SubKeys(FieldName(i)) \cap DOMAIN res.data[k] = {}
                ELSE SubKeys(FieldName(i)) \subseteq DOMAIN res.data[k]

\* a row record whose status field has all three sub-keys and whose serial
\* number and job details have none
C20_Witness ==
    /\ Succeeded
    /\ \E k \in 1..Len(res.data) :
        /\ <<"S","t","a","t","u","s">> \in DOMAIN res.data[k]
        /\ SubKeys(<<"S","t","a","t","u","s">>) \subseteq DOMAIN res.data[k]
        /\ res.data[k][<<"S","t","a","t","u","s","_","s","t","a","t","u","s">>]
               = Str(<<"A","C","T","I","V","E">>)
        /\ {SNoKey, JobDetailsKey} \subseteq DOMAIN res.data[k]
        /\ (SubKeys(SNoKey) \cup SubKeys(JobDetailsKey)) \cap DOMAIN res.data[k] = {}

----------------------------------------------------------------------------
(* The header row on its own: header extraction and the mapping of the     *)
(* labels to field names                                                   *)

\* pieces of header texts
Fragments ==
    {<<>>, <<"S",".","N","o">>, <<"s"," ","n","o">>, <<"J","O","B">>,
     <<"D","e","t","a","i","l">>, <<"J","o","b"," "," ","d","e","t","a","i","l">>,
     <<"c","o","m","m","e","n","t">>, <<"S","t","a","t","u","s">>,
     <<"C","o","l","u","m","n">>}

HeaderTexts == {a \o b : a \in Fragments, b \in Fragments}

HeaderCells ==
    {W(t) : t \in HeaderTexts} \cup {AbsentCell, Raw(Int2Num(2024))}

\* range.s.c: the range starts at column A, B or J
StartColumns == {0, 1, 9}

\* header rows of one, two and three columns
HeaderRows ==
    {<<c>> : c \in HeaderCells}
    \cup {<<AbsentCell, c>> : c \in HeaderCells}
    \cup {<<c, W(<<"S","t","a","t","u","s">>), AbsentCell>> : c \in HeaderCells}

HeaderInit ==
    /\ \E sc \in StartColumns, hdr \in HeaderRows : firstRow = Sheet(sc, hdr, <<>>)
    /\ labels = <<>>
    /\ fields = <<>>
    /\ ServerIdle
    /\ CaptureIdle
    /\ EquivIdle
    /\ CellIdle
    /\ StatusIdle
    /\ ClientIdle
    /\ ConcurrentIdle

\* Extract headers from first row
ExtractHeaders ==
    /\ labels = <<>>
    /\ labels' = headers(firstRow)
    /\ UNCHANGED <<firstRow, fields, notHeader>>

\* the column is skipped, or header.startsWith throws
NoField == <<>>

\* Map the header to a clean name, for the columns that are not skipped
MapHeaders ==
    /\ labels # <<>>
    /\ fields = <<>>
    /\ fields' = [i \in 1..Len(labels) |->
                    IF labels[i].t # "string"
                       \/ StartsWith(labels[i].s, <<"C","o","l","u","m","n">>)
                    THEN NoField
                    ELSE cleanHeader(labels[i].s)]
    /\ UNCHANGED <<firstRow, labels, notHeader>>

HeaderNext ==
    \/ ExtractHeaders
    \/ MapHeaders

HeaderSpec == HeaderInit /\ [][HeaderNext]_vars

\* the resolved value of the header cell of column i of the first row
FirstRowValue(i) == getFormattedCellValue(firstRow.hdr[i])

LowerLabel(i) == ToLowerCase(labels[i].s)

\* the columns that are given a field name
Mapped == {i \in 1..Len(fields) : fields[i] # NoField}

SerialRule(i) ==
    Includes(LowerLabel(i), <<"s",".","n","o">>) \/ Includes(LowerLabel(i), <<"s"," ","n","o">>)

JobRule(i) ==
    Includes(LowerLabel(i), <<"j","o","b">>)
    /\ Includes(LowerLabel(i), <<"d","e","t","a","i","l">>)

CommentRule(i) == Includes(LowerLabel(i), <<"c","o","m","m","e","n","t">>)

\* C16: a label that contains "s.no" or "s no" (in any case) gives the
\* serial-number field; otherwise one that contains "job" and "detail"
\* gives the job-details field; otherwise one that contains "comment" gives
\* the comments field; otherwise the label itself is the field name.
C16_FieldNameByFirstRule ==
    \A i \in Mapped :
        /\ SerialRule(i) => fields[i] = SNoKey
        /\ (~SerialRule(i) /\ JobRule(i)) => fields[i] = JobDetailsKey
        /\ (~SerialRule(i) /\ ~JobRule(i) /\ CommentRule(i)) => fields[i] = CommentsKey
        /\ (~SerialRule(i) /\ ~JobRule(i) /\ ~CommentRule(i)) => fields[i] = labels[i].s

\* a label that meets the job-details rule and the comments rule, one that
\* meets none, and one in another case
C16_Witness ==
    /\ Len(fields) = 3
    /\ labels[1] = Str(<<"J","o","b"," "," ","d","e","t","a","i","l",
                         "c","o","m","m","e","n","t">>)
    /\ fields[1] = JobDetailsKey
    /\ fields[2] = <<"S","t","a","t","u","s">>
    /\ fields[3] = NoField

----------------------------------------------------------------------------
(* Status classification on its own: getStatusInfo applied to the resolved *)
(* statusArg of one cell                                                       *)

\* texts of status cells: the keywords of getStatusInfo, the status types
\* of the README, times, day-month texts and other texts
StatusWords ==
    GreenWords \cup RedWords \cup OrangeWords
    \cup {<<"P","R","O","C","E","S","S","I","N","G">>,
          <<"C","O","M","P","L","E","T","E","D">>,
          <<"N","A">>, <<"N","/","A">>, <<>>,
          <<"0","0",":","0","0">>, <<"5",":","3","0">>, <<"1","2",":","0","0">>,
          <<"1","2","3",":","4","5">>, <<"5",":","3">>,
          <<"0","5","-","J","A","N">>, <<"5","-","J","A","N">>,
          <<"0","5","-","J","A","N","E">>, <<"5","-","1","2","3">>,
          <<"A","C","T","I","V","E"," ","P","A","S","S">>,
          <<"H","E","L","L","O">>}

\* a text in upper case, in lower case, and with white space around it
Spellings(word) ==
    {word, ToLowerCase(word), <<" ">> \o ToLowerCase(word),
     <<"\t">> \o word \o <<" ", "\n">>}

StatusCells ==
    {W(s) : s \in UNION {Spellings(word) : word \in StatusWords}}
    \cup {AbsentCell, Raw(Num(0)), Raw(Num(Scale \div 2)), Raw(Int2Num(3)),
          Raw(True), Raw(False)}

\* const cellValue = getFormattedCellValue(cell)
StatusValues == {getFormattedCellValue(c) : c \in StatusCells} \cup {Null, Undefined}

StatusInit ==
    /\ statusArg \in StatusValues
    /\ statusResult = NoStatusInfo
    /\ ServerIdle
    /\ CaptureIdle
    /\ EquivIdle
    /\ CellIdle
    /\ ClientIdle
    /\ ConcurrentIdle
    /\ HeaderIdle

\* const statusInfo = getStatusInfo(cellValue)
Classify ==
    /\ statusResult = NoStatusInfo
    /\ statusResult' = getStatusInfo(statusArg)
    /\ UNCHANGED <<statusArg, notStatus>>

StatusNext == Classify

StatusSpec == StatusInit /\ [][StatusNext]_vars

\* getStatusInfo has returned
Classified == statusResult # NoStatusInfo

\* String(value).toUpperCase().trim()
UpperTrimmed == Trim(ToUpperCase(StringOf(statusArg)))

Green == <<"#","0","0","B","0","5","0">>

Red == <<"#","F","F","0","0","0","0">>

Orange == <<"#","F","F","C","0","0","0">>

Blue == <<"#","0","0","7","0","C","0">>

Purple == <<"#","7","0","3","0","A","0">>

Grey == <<"#","d","9","d","9","d","9">>

\* the value is text
IsText == statusArg.t = "string"

\* C11: a cell whose upper-case trimmed text is ACTIVE is green / success,
\* INACTIVE is red / error, PENDING is yellow / warning, PROCESSING is
\* purple / processing, COMPLETED is blue / info, and FAILED is red.
C11_DocumentedStatusTypes ==
    (Classified /\ IsText) =>
        /\ UpperTrimmed = <<"A","C","T","I","V","E">> =>
               statusResult.color = Green /\ statusResult.type = <<"s","u","c","c","e","s","s">>
        /\ UpperTrimmed = <<"I","N","A","C","T","I","V","E">> =>
               statusResult.color = Red /\ statusResult.type = <<"e","r","r","o","r">>
        /\ UpperTrimmed = <<"P","E","N","D","I","N","G">> =>
               statusResult.color = Orange /\ statusResult.type = <<"w","a","r","n","i","n","g">>
        /\ UpperTrimmed = <<"P","R","O","C","E","S","S","I","N","G">> =>
               statusResult.color = Purple
               /\ statusResult.type = <<"p","r","o","c","e","s","s","i","n","g">>
        /\ UpperTrimmed = <<"C","O","M","P","L","E","T","E","D">> =>
               statusResult.color = Blue /\ statusResult.type = <<"i","n","f","o">>
        /\ UpperTrimmed = <<"F","A","I","L","E","D">> => statusResult.color = Red

\* the value is the empty text, null or undefined
IsEmpty == statusArg \in {Str(<<>>), Null, Undefined}

\* C17: getStatusInfo equals the documented cascade for every resolved cell
\* value: empty / null / undefined gives NA / #d9d9d9 / default; otherwise,
\* with S the upper-case trimmed text, a green keyword gives S / #00B050 /
\* success, a red keyword S / #FF0000 / error, PENDING S / #FFC000 /
\* warning, a time S / #d9d9d9 / default when S = "00:00" and S / #0070C0 /
\* processing otherwise, a day-month text S / #7030A0 / purple, NA gives
\* NA / #d9d9d9 / default, and anything else S / #0070C0 / info.
C17_DocumentedCascade ==
    Classified =>
        statusResult =
            IF IsEmpty
            THEN StatusInfo(<<"N","A">>, Grey, <<"d","e","f","a","u","l","t">>)
            ELSE IF UpperTrimmed \in {<<"A","C","T","I","V","E">>, <<"P","A","S","S">>,
                                      <<"E","N","A","B","L","E","D">>,
                                      <<"U","N","S","U","S","P","E","N","D","E","D">>}
            THEN StatusInfo(UpperTrimmed, Green, <<"s","u","c","c","e","s","s">>)
            ELSE IF UpperTrimmed \in {<<"O","F","F">>, <<"F","A","I","L","E","D">>,
                                      <<"I","N","A","C","T","I","V","E">>,
                                      <<"S","U","S","P","E","N","D","E","D">>}
            THEN StatusInfo(UpperTrimmed, Red, <<"e","r","r","o","r">>)
            ELSE IF UpperTrimmed = <<"P","E","N","D","I","N","G">>
            THEN StatusInfo(UpperTrimmed, Orange, <<"w","a","r","n","i","n","g">>)
            ELSE IF IsTimeText(UpperTrimmed)
            THEN IF UpperTrimmed = <<"0","0",":","0","0">>
                 THEN StatusInfo(UpperTrimmed, Grey, <<"d","e","f","a","u","l","t">>)
                 ELSE StatusInfo(UpperTrimmed, Blue,
                                 <<"p","r","o","c","e","s","s","i","n","g">>)
            ELSE IF IsDayMonthText(UpperTrimmed)
            THEN StatusInfo(UpperTrimmed, Purple, <<"p","u","r","p","l","e">>)
            ELSE IF UpperTrimmed = <<"N","A">>
            THEN StatusInfo(<<"N","A">>, Grey, <<"d","e","f","a","u","l","t">>)
            ELSE StatusInfo(UpperTrimmed, Blue, <<"i","n","f","o">>)

\* the conditions of the rules of getStatusInfo
EmptyRule ==
    ~Truthy(statusArg) \/ statusArg = Null \/ statusArg = Undefined
    \/ statusArg = Str(<<>>)

GreenRule == UpperTrimmed \in GreenWords

RedRule == UpperTrimmed \in RedWords

PendingRule == UpperTrimmed \in OrangeWords

TimeRule == IsTimeText(UpperTrimmed)

DayMonthRule == IsDayMonthText(UpperTrimmed)

NARule == UpperTrimmed = <<"N","A">>

\* the rules whose condition holds of the value
RulesHolding ==
    {r \in {"empty", "green", "red", "pending", "time", "daymonth", "na"} :
        CASE r = "empty" -> EmptyRule
          [] r = "green" -> GreenRule
          [] r = "red" -> RedRule
          [] r = "pending" -> PendingRule
          [] r = "time" -> TimeRule
          [] r = "daymonth" -> DayMonthRule
          [] OTHER -> NARule}

\* C18: for every cell value at most one of the rule conditions (empty,
\* green keyword, red keyword, PENDING, time pattern, day-month pattern,
\* NA) holds, and the result is the one of the rule that holds, whatever
\* the order in which the rules are tried.
C18_RulesExclusive ==
    /\ Cardinality(RulesHolding) <= 1
    /\ Classified =>
        /\ EmptyRule => statusResult.color = Grey /\ statusResult.status = <<"N","A">>
        /\ GreenRule => statusResult.color = Green
        /\ RedRule => statusResult.color = Red
        /\ PendingRule => statusResult.color = Orange
        /\ TimeRule => statusResult.color \in {Grey, Blue}
                       /\ statusResult.type \in {<<"d","e","f","a","u","l","t">>,
                                                 <<"p","r","o","c","e","s","s","i","n","g">>}
        /\ DayMonthRule => statusResult.color = Purple
        /\ NARule => statusResult.color = Grey
        /\ RulesHolding = {} => statusResult.type = <<"i","n","f","o">>

\* a keyword of the red list, in lower case and with white space around it,
\* has been classified by the red rule alone
C18_Witness ==
    /\ Classified
    /\ statusArg = Str(<<" ","f","a","i","l","e","d">>)
    /\ RulesHolding = {"red"}
    /\ statusResult.color = Red

\* C19: for every text value v, getStatusInfo(v) returns the same status,
\* color and type as getStatusInfo applied to the upper-case trimmed form
\* of v.
C19_CaseAndSpaceInsensitive ==
    (Classified /\ IsText) => statusResult = getStatusInfo(Str(UpperTrimmed))

----------------------------------------------------------------------------
(* The client's upload form: the Dragger of App.tsx, the ExcelUpload       *)
(* component and the upload mutation                                       *)

\* accept=".xlsx,.xls,.csv"
accept == {".xlsx", ".xls", ".csv"}

\* const allowedTypes = [...]
allowedTypes == {"application/vnd.openxmlformats-officedocument.spreadsheetml.sheet",
                 "application/vnd.ms-excel",
                 "text/csv"}

\* the files a user may pick
Files == {File(e, t, z) : e \in accept \cup {".txt"}, t \in MimeTypes, z \in FileSizes}

ClientInit ==
    /\ ClientIdle
    /\ ServerIdle
    /\ CaptureIdle
    /\ EquivIdle
    /\ CellIdle
    /\ StatusIdle
    /\ ConcurrentIdle
    /\ HeaderIdle

\* the Dragger is shown while no data is shown; it hands a file with an
\* accepted extension to beforeUpload
DraggerSelect ==
    /\ clientPc \in {"idle", "error"}
    /\ \E f \in Files :
        /\ f.ext \in accept
        /\ file' = f
    /\ clientPc' = "beforeUpload"
    /\ UNCHANGED <<posted, shownError, notClient>>

\* ExcelUpload.onDrop with onFileSelect = handleFileUpload
onDrop ==
    /\ clientPc \in {"idle", "error"}
    /\ \E f \in Files :
        IF f.type \notin allowedTypes
        THEN /\ shownError' = "Please upload only Excel (.xlsx, .xls) or CSV files"
             /\ UNCHANGED <<clientPc, file>>
        ELSE IF f.size > 10 * 1024 * 1024
        THEN /\ shownError' = "File size must be less than 10MB"
             /\ UNCHANGED <<clientPc, file>>
        ELSE /\ file' = f
             /\ clientPc' = "beforeUpload"
             /\ UNCHANGED shownError
    /\ UNCHANGED <<posted, notClient>>

\* handleFileUpload: uploadMutation.mutate(file), that is uploadExcelFile,
\* which posts the file to /upload-excel
handleFileUpload ==
    /\ clientPc = "beforeUpload"
    /\ posted' = file
    /\ clientPc' = "pending"
    /\ UNCHANGED <<file, shownError, notClient>>

\* the mutation settles: onSuccess or onError
Settle ==
    /\ clientPc = "pending"
    /\ \E ok \in BOOLEAN : clientPc' = IF ok THEN "success" ELSE "error"
    /\ UNCHANGED <<file, posted, shownError, notClient>>

ClientNext ==
    \/ DraggerSelect
    \/ onDrop
    \/ handleFileUpload
    \/ Settle

ClientSpec == ClientInit /\ [][ClientNext]_vars

\* C12: the client posts a file to the upload endpoint only if the file's
\* type is one of the allowed Excel / CSV MIME types and its size is at
\* most 10MB.
C12_PostedFileIsValid ==
    posted # NoFile => posted.type \in allowedTypes /\ posted.size <= fileSize

----------------------------------------------------------------------------
(* Upload requests side by side: each handler runs to completion between   *)
(* its asynchronous points (the upload of the file, the await of           *)
(* parsePromise); the stored files are in directories all requests share   *)

\* the requests in progress
Tasks == {"a", "b"}

\* the files uploaded side by side
ConcurrentFiles ==
    {Sheet(0, <<SNoHeader, JobHeader>>, <<<<One, Fix>>>>),
     Sheet(0, <<SNoHeader, JobHeader>>, <<<<Two, Fix>>, <<One, Fix>>>>),
     Failing("corrupt")}

\* file.fieldname + '-' + uniqueSuffix + path.extname(file.originalname) in
\* 'uploads/', with uniqueSuffix = Date.now() + '-' +
\* Math.round(Math.random() * 1E9): the names two requests may be given
multerPaths == {"uploads/excel-1700000000000-1.xlsx", "uploads/excel-1700000000000-2.xlsx"}

\* multiparty's temporary file, created exclusively for one form
multipartyPath == [t \in Tasks |-> IF t = "a" THEN "tmp/a.xlsx" ELSE "tmp/b.xlsx"]

Paths == multerPaths \cup {multipartyPath[t] : t \in Tasks}

\* no file of that name
NoSuchFile == [k |-> "absent", sc |-> 0, hdr |-> <<>>, rows |-> <<>>]

Invocation(entry, at, own, path, response) ==
    [entry |-> entry, pc |-> at, own |-> own, path |-> path, res |-> response]

ConcurrentInit ==
    /\ invocations = [t \in Tasks |-> Invocation("", "idle", Unread, "", NoResponse)]
    /\ disk = [p \in Paths |-> NoSuchFile]
    /\ ServerIdle
    /\ CaptureIdle
    /\ EquivIdle
    /\ CellIdle
    /\ StatusIdle
    /\ ClientIdle
    /\ HeaderIdle

\* a POST with a file of an allowed type and size reaches an entry point
ConcurrentReceive(t) ==
    /\ invocations[t].pc = "idle"
    /\ \E e \in {"express", "serverless"}, wb \in ConcurrentFiles :
        invocations' = [invocations EXCEPT
                           ![t] = Invocation(e, "upload", wb, "", NoResponse)]
    /\ UNCHANGED <<disk, notConcurrent>>

\* multer's diskStorage writes the file under the name filename() gave it,
\* over a file of that name; bytes of two uploads written at the same time
\* make a file XLSX.readFile cannot read
MulterStore(t) ==
    /\ invocations[t].pc = "upload"
    /\ invocations[t].entry = "express"
    /\ \E p \in multerPaths :
       \E content \in IF disk[p] = NoSuchFile
                      THEN {invocations[t].own}
                      ELSE {invocations[t].own, Failing("corrupt")} :
        /\ disk' = [disk EXCEPT ![p] = content]
        /\ invocations' = [invocations EXCEPT ![t].pc = "route", ![t].path = p]
    /\ UNCHANGED notConcurrent

\* multiparty writes the file of the form to its temporary file
MultipartyStore(t) ==
    /\ invocations[t].pc = "upload"
    /\ invocations[t].entry = "serverless"
    /\ disk' = [disk EXCEPT ![multipartyPath[t]] = invocations[t].own]
    /\ invocations' = [invocations EXCEPT ![t].pc = "resume",
                                          ![t].path = multipartyPath[t]]
    /\ UNCHANGED notConcurrent

\* the response to the file at a path: XLSX.readFile(filePath) and the rest
\* of the try block, or the catch block
ResponseTo(content) ==
    IF content = NoSuchFile
    THEN DetailedResponse(500, "Failed to process Excel file",
                          "ENOENT: no such file or directory")
    ELSE ProcessedResponse(ReadAndNormalize(content))

\* the Express route handler: it reads filePath, removes it (at the end of
\* the try block, or in the catch block if it exists) and answers
ConcurrentRoute(t) ==
    /\ invocations[t].pc = "route"
    /\ invocations' = [invocations EXCEPT
                           ![t].pc = "done",
                           ![t].res = ResponseTo(disk[invocations[t].path])]
    /\ disk' = [disk EXCEPT ![invocations[t].path] = NoSuchFile]
    /\ UNCHANGED notConcurrent

\* the serverless handler after the await: it reads its temporary file,
\* removes it at the end of the try block only, and answers
ConcurrentResume(t) ==
    /\ invocations[t].pc = "resume"
    /\ invocations' = [invocations EXCEPT
                           ![t].pc = "done",
                           ![t].res = ResponseTo(disk[invocations[t].path])]
    /\ disk' = IF invocations'[t].res.status = 200
               THEN [disk EXCEPT ![invocations[t].path] = NoSuchFile]
               ELSE disk
    /\ UNCHANGED notConcurrent

ConcurrentNext ==
    \E t \in Tasks :
        \/ ConcurrentReceive(t)
        \/ MulterStore(t)
        \/ MultipartyStore(t)
        \/ ConcurrentRoute(t)
        \/ ConcurrentResume(t)

ConcurrentSpec == ConcurrentInit /\ [][ConcurrentNext]_vars

\* the response to a file uploaded alone
AloneResponse(wb) == ProcessedResponse(ReadAndNormalize(wb))

\* C13: when upload requests are processed side by side, each response
\* equals the response the request's own file produces when it is processed
\* alone.
C13_ResponseAsAlone ==
    \A t \in Tasks :
        invocations[t].pc = "done" =>
            invocations[t].res = AloneResponse(invocations[t].own)

----------------------------------------------------------------------------
(* Cell resolution on its own                                              *)

\* the formatted texts a cell may carry (cell.w); a number format with empty
\* sections leaves the empty text
FormattedTexts ==
    {Undefined, Str(<<>>), Str(<<"A","C","T","I","V","E">>),
     Str(<<"1","2",":","3","0">>), Str(<<"0",".","5">>),
     Str(<<"0","5","-","J","A","N">>), Str(<<"1">>)}

\* the raw values a cell may carry (cell.v): none, times of day, other
\* numbers, texts and booleans.  The times of day are such that the double
\* product serial * 24 * 60 rounds as the exact product does.
RawValues ==
    {Undefined, Num(0), Num(1), Num(Scale \div 64), Num(Scale \div 2),
     Num(3 * (Scale \div 4)), Num(63 * (Scale \div 64)), Num(Scale - 1),
     Int2Num(1), Int2Num(3), Num(0 - (Scale \div 2)),
     Str(<<"A","C","T","I","V","E">>), Str(<<>>), True, False}

ResolvableCells ==
    {AbsentCell} \cup {Cell(w, v) : w \in FormattedTexts, v \in RawValues}

CellInit ==
    /\ cellArg \in ResolvableCells
    /\ cellResult = NoCellValue
    /\ ServerIdle
    /\ CaptureIdle
    /\ EquivIdle
    /\ StatusIdle
    /\ ClientIdle
    /\ ConcurrentIdle
    /\ HeaderIdle

\* const cellValue = getFormattedCellValue(worksheet, cellAddress)
Resolve ==
    /\ cellResult = NoCellValue
    /\ cellResult' = getFormattedCellValue(cellArg)
    /\ UNCHANGED <<cellArg, notCell>>

CellNext == Resolve

CellSpec == CellInit /\ [][CellNext]_vars

\* getFormattedCellValue has returned
Resolved == cellResult # NoCellValue

\* a numeric raw value in [0,1)
InDay(v) == IsNumber(v) /\ v.x = "fin" /\ v.n >= 0 /\ v.n < Scale

\* round(value * 1440), the value counted in units of 1/Scale
RoundedMinutes(v) == (2 * v.n * MinutesPerDay + Scale) \div (2 * Scale)

\* zero-padded HH:MM of hours = floor(totalMinutes/60) mod 24 and
\* minutes = totalMinutes mod 60
TimeText(totalMinutes) ==
    Str(PadStart2(NatDigits((totalMinutes \div 60) % 24)) \o <<":">>
        \o PadStart2(NatDigits(totalMinutes % 60)))

\* C21: cell resolution follows the formatting rule for every cell: an
\* absent cell gives the empty string; a cell with a pre-formatted string
\* gives that string verbatim, whatever its raw value; otherwise a numeric
\* raw value in [0,1) gives the zero-padded HH:MM of round(value * 1440)
\* (0.5 gives "12:00", and 0.0 gives "00:00", which classifies as
\* default/#d9d9d9); any other raw value is returned unchanged.
C21_FormattingRule ==
    Resolved =>
        /\ cellResult =
              IF ~cellArg.present THEN Str(<<>>)
              ELSE IF cellArg.w.t = "string" THEN cellArg.w
              ELSE IF InDay(cellArg.v) THEN TimeText(RoundedMinutes(cellArg.v))
              ELSE IF cellArg.v # Undefined THEN cellArg.v
              ELSE cellResult
        /\ cellArg = Raw(Num(Scale \div 2))
              => cellResult = Str(<<"1","2",":","0","0">>)
        /\ cellArg = Raw(Num(0))
              => /\ cellResult = Str(<<"0","0",":","0","0">>)
                 /\ getStatusInfo(cellResult).color = Grey
                 /\ getStatusInfo(cellResult).type = "default"

----------------------------------------------------------------------------
(* The order and the keys of the rows of a response                        *)

\* the records of the admitted rows r .. of the sheet, in the order of the
\* sheet
RECURSIVE AdmittedFrom(_)
AdmittedFrom(r) ==
    IF r > Len(worksheet.rows) THEN <<>>
    ELSE (IF Admitted(RowRecord(r)) THEN <<OutputOf(r)>> ELSE <<>>)
         \o AdmittedFrom(r + 1)

\* the rows of a sequence whose rowNumber is k, in their order
WithRowNumber(rows, k) == SelectSeq(rows, LAMBDA row : rowNumber(row) = k)

\* C22: the final sort is stable: any two admitted rows with equal
\* rowNumber appear in the output in the same relative order as their rows
\* in the sheet.
C22_SortIsStable ==
    Succeeded =>
        \A r \in DataRows :
            Admitted(RowRecord(r)) =>
                WithRowNumber(res.data, rowNumber(OutputOf(r)))
                    = WithRowNumber(AdmittedFrom(1), rowNumber(OutputOf(r)))

\* C22 witness: two admitted rows of equal rowNumber and different serial
\* texts ("01" above "1") have been answered in the order of the sheet
C22_Witness ==
    /\ Succeeded
    /\ Len(worksheet.rows) = 2
    /\ Admitted(RowRecord(1)) /\ Admitted(RowRecord(2))
    /\ SerialText(1) = <<"0","1">> /\ SerialText(2) = <<"1">>
    /\ rowNumber(OutputOf(1)) = rowNumber(OutputOf(2))
    /\ res.data = <<OutputOf(1), OutputOf(2)>>

\* a request is being handled
InProgress == pc \notin {"idle", "done"}

\* C23: every request reaching either upload entry point receives exactly
\* one response, never zero and never two, and its status is one of 200,
\* 400, 405 (serverless handler, method other than POST) or 500; after a
\* response has been sent no further response is attempted on any path,
\* including the exception path.
C23_ExactlyOneResponse ==
    /\ [](/\ responses <= 1
          /\ responses = 1 <=> Done
          /\ Done => /\ res.status \in {200, 400, 405, 500}
                     /\ res.status = 405
                           => req.entry = "serverless" /\ req.method # "POST")
    /\ [][responses' # responses
             => \/ responses = 0 /\ responses' = 1
                \/ Done /\ pc' = "idle" /\ responses' = 0]_vars
    /\ (InProgress ~> Done)

\* C23 witness: a request whose normalisation threw has been answered
\* once, by the 500 response of the catch block
C23_Witness ==
    /\ Done
    /\ Decoded
    /\ ReadAndNormalize(worksheet).threw
    /\ res.status = 500
    /\ responses = 1

----------------------------------------------------------------------------
(* One workbook given to both servers                                      *)

\* the try block of the serverless handler from XLSX.readFile to the sort
\* with the rows left in the order of the sheet
serverlessNormalizeUnsorted(wb) ==
    IF wb.k = "sheet"
    THEN LET p == ProcessRows(headers(wb), wb.rows, 1, <<>>)
         IN  [threw |-> p.threw,
              message |-> IF p.threw THEN "header.startsWith is not a function" ELSE "",
              jsonData |-> p.jsonData]
    ELSE ReadAndNormalize(wb)

\* the try block of the serverless handler from XLSX.readFile to the sort:
\* the statements of the Express route without its console.log calls
serverlessNormalize(wb) == ReadAndNormalize(wb)

\* the try block of the Express route from XLSX.readFile to the sort
expressNormalize(wb) == ReadAndNormalize(wb)

EquivInit ==
    /\ book \in Workbooks
    /\ expressAnswer = NoResponse
    /\ serverlessAnswer = NoResponse
    /\ ServerIdle
    /\ CaptureIdle
    /\ StatusIdle
    /\ ClientIdle
    /\ ConcurrentIdle
    /\ HeaderIdle
    /\ CellIdle

\* the Express route answers the workbook
ExpressAnswers ==
    /\ expressAnswer = NoResponse
    /\ expressAnswer' = ProcessedResponse(expressNormalize(book))
    /\ UNCHANGED <<book, serverlessAnswer, notEquiv>>

\* the serverless handler answers the workbook
ServerlessAnswers ==
    /\ serverlessAnswer = NoResponse
    /\ serverlessAnswer' = ProcessedResponse(serverlessNormalize(book))
    /\ UNCHANGED <<book, expressAnswer, notEquiv>>

EquivNext == ExpressAnswers \/ ServerlessAnswers

EquivSpec == EquivInit /\ [][EquivNext]_vars

\* a row record without its uploadDate
WithoutUploadDate(row) == [k \in (DOMAIN row) \ {UploadDateKey} |-> row[k]]

\* the data of a response without the uploadDate timestamps
DataWithoutUploadDate(r) == [i \in 1..Len(r.data) |-> WithoutUploadDate(r.data[i])]

\* both servers have accepted the workbook
BothAccepted == expressAnswer.status = 200 /\ serverlessAnswer.status = 200

----------------------------------------------------------------------------
(* The download of the table as an image                                   *)

\* the inline styles an element of the page may have
OriginalStyles == {NoStyle, InlineStyle("600px", "", "auto", "", "")}

Pages ==
    {Page(ref, found, original) :
        ref \in BOOLEAN, found \in SUBSET Elements,
        original \in [Elements -> OriginalStyles]}

CaptureInit ==
    /\ capturePc = "idle"
    /\ page \in Pages
    /\ style = page.original
    /\ saved = NoPage.original
    /\ captureMode = FALSE
    /\ isGeneratingImage = FALSE
    /\ ServerIdle
    /\ StatusIdle
    /\ ClientIdle
    /\ ConcurrentIdle
    /\ HeaderIdle
    /\ CellIdle
    /\ EquivIdle

\* Temporarily modify styles to show all content
Expanded(e, s) ==
    CASE e \in {"scrollContainer", "tableElement"} ->
            InlineStyle("auto", "none", "visible", "auto", "1400px")
      [] e = "tableBody" -> InlineStyle("auto", "none", "visible", "auto", s.minWidth)
      [] OTHER -> [s EXCEPT !.width = "auto", !.minWidth = "100%"]

\* downloadAsImage up to its first await
StartDownload ==
    /\ capturePc = "idle"
    /\ IF ~page.ref
       THEN \* if (!tableRef.current) return;
            /\ capturePc' = "finished"
            /\ UNCHANGED <<style, saved, captureMode, isGeneratingImage>>
       ELSE IF ~({"scrollContainer", "tableElement"} \subseteq page.found)
       THEN \* alert('Table not found. Please try again.'); return; finally
            /\ capturePc' = "finished"
            /\ isGeneratingImage' = FALSE
            /\ UNCHANGED <<style, saved, captureMode>>
       ELSE /\ isGeneratingImage' = TRUE
            /\ saved' = [e \in Elements |-> IF e \in page.found THEN style[e] ELSE NoStyle]
            /\ style' = [e \in Elements |->
                            IF e \in page.found THEN Expanded(e, style[e]) ELSE style[e]]
            /\ captureMode' = TRUE
            /\ capturePc' = "layout"
    /\ UNCHANGED <<page, notCapture>>

\* the timer of 500 ms fires: the dimensions are read and html2canvas is
\* called
StartCapture ==
    /\ capturePc = "layout"
    /\ capturePc' = "capture"
    /\ UNCHANGED <<page, style, saved, captureMode, isGeneratingImage, notCapture>>

\* html2canvas resolves: Restore original styles, canvas.toBlob, finally
CaptureResolves ==
    /\ capturePc = "capture"
    /\ style' = [e \in Elements |-> IF e \in page.found THEN saved[e] ELSE style[e]]
    /\ captureMode' = FALSE
    /\ isGeneratingImage' = FALSE
    /\ capturePc' = "finished"
    /\ UNCHANGED <<page, saved, notCapture>>

\* html2canvas rejects: catch (alert), finally
CaptureRejects ==
    /\ capturePc = "capture"
    /\ isGeneratingImage' = FALSE
    /\ capturePc' = "finished"
    /\ UNCHANGED <<page, style, saved, captureMode, notCapture>>

CaptureNext ==
    \/ StartDownload
    \/ StartCapture
    \/ CaptureResolves
    \/ CaptureRejects

CaptureSpec == CaptureInit /\ [][CaptureNext]_vars

\* C25: after downloadAsImage finishes on any path (success, table not
\* found, or an exception from the capture), the inline styles of the
\* scroll container, table container, table body and table are back to
\* their original values, the 'image-capture-mode' class is removed, and
\* isGeneratingImage is false.
C25_StylesRestored ==
    capturePc = "finished" =>
        /\ style = page.original
        /\ ~captureMode
        /\ ~isGeneratingImage

\* the header of column i of the range is skipped by the column loop:
\* if (!header || header.startsWith('Column')) continue;
Skipped(i) ==
    LET header == headers(worksheet)[i] IN
    ~Truthy(header) \/ StartsWith(StringOf(header), <<"C","o","l","u","m","n">>)

\* Get all unique column keys: the keys of a row of the grid without the
\* metadata and the status keys
allKeys(row) ==
    {key \in DOMAIN row :
        /\ key \notin {IdKey, UploadDateKey, RowNumberKey}
        /\ ~Includes(key, <<"_","s","t","a","t","u","s">>)
        /\ ~Includes(key, <<"_","c","o","l","o","r">>)
        /\ ~Includes(key, <<"_","t","y","p","e">>)}

\* row k of the data as the client parses it
ReceivedRow(k) == JSONRoundTrip(res.data[k])

\* C26: all row records of one upload have the same set of keys: every
\* non-skipped column contributes its field (and, for status fields, its
\* three sub-keys) to every admitted row, even where the cell is empty, so
\* the columns the client derives from the first row cover every row.
C26_SameKeysInEveryRow ==
    Succeeded =>
        \A k \in 1..Len(res.data) :
            /\ DOMAIN res.data[k] = DOMAIN res.data[1]
            /\ \A i \in HeaderColumns :
                  ~Skipped(i) =>
                      /\ FieldName(i) \in DOMAIN res.data[k]
                      /\ FieldName(i) \notin {SNoKey, JobDetailsKey, CommentsKey}
                            => SubKeys(FieldName(i)) \subseteq DOMAIN res.data[k]
            /\ allKeys(ReceivedRow(k)) \subseteq allKeys(ReceivedRow(1))

\* C26 witness: of two admitted rows the first has a status cell and the
\* second has none, and both carry the Status field and its sub-keys
C26_Witness ==
    /\ Succeeded
    /\ Len(res.data) = 2
    /\ Len(worksheet.hdr) = 3
    /\ FieldName(3) = <<"S","t","a","t","u","s">>
    /\ \E r \in DataRows :
          /\ OutputOf(r) = res.data[1]
          /\ worksheet.rows[r][3] # AbsentCell
    /\ \E r \in DataRows :
          /\ OutputOf(r) = res.data[2]
          /\ worksheet.rows[r][3] = AbsentCell
    /\ res.data[2][<<"S","t","a","t","u","s">>] = Str(<<>>)
    /\ SubKeys(<<"S","t","a","t","u","s">>) \subseteq DOMAIN res.data[2]
    /\ <<"S","t","a","t","u","s">> \in allKeys(ReceivedRow(1))

\* the columns of the range that the column loop does not skip
NonSkipped == {i \in HeaderColumns : ~Skipped(i)}

\* the rightmost of the columns cols whose field name is name
Rightmost(cols, name) ==
    CHOOSE j \in cols :
        /\ FieldName(j) = name
        /\ \A m \in cols : m > j => FieldName(m) # name

\* the fields of data row r, each with the value (cellValue || '') of the
\* rightmost non-skipped column of its name
RightmostFields(r, cols) ==
    [name \in {FieldName(i) : i \in cols} |->
        Or(getFormattedCellValue(worksheet.rows[r][Rightmost(cols, name)]), Str(<<>>))]

\* the record of row r holds the fields f
HoldsFields(record, f) == \A name \in DOMAIN f : record[name] = f[name]

\* the fields f are those of the row record of row r, and row r is in the
\* data exactly when f passes the admission test
RightmostDecides(r, f) ==
    /\ HoldsFields(RowRecord(r), f)
    /\ Admitted(f) <=> \E k \in 1..Len(res.data) : res.data[k] = OutputOf(r)

\* C27: when two or more non-skipped columns map to the same field name,
\* the row record holds, for that field, the value of the rightmost such
\* column (later columns overwrite earlier ones), and the admission test
\* is applied to that overwritten value.
C27_RightmostColumnWins ==
    Succeeded =>
        /\ \A r \in DataRows : RightmostDecides(r, RightmostFields(r, NonSkipped))
        /\ \A k \in 1..Len(res.data) : \E r \in DataRows : res.data[k] = OutputOf(r)

\* C27 witness: of two serial-number columns the left holds 1 and the
\* right 2 in one row, which is answered with serial number 2, and the
\* left holds 2 and the right nothing in another row, which is left out
C27_Witness ==
    /\ Succeeded
    /\ Len(worksheet.hdr) = 4
    /\ FieldName(1) = SNoKey /\ FieldName(3) = SNoKey
    /\ {1, 3} \subseteq NonSkipped
    /\ Len(worksheet.rows) = 2
    /\ worksheet.rows[1][1] = One /\ worksheet.rows[1][3] = Two
    /\ worksheet.rows[2][1] = Two /\ worksheet.rows[2][3] = AbsentCell
    /\ Len(res.data) = 1
    /\ res.data[1][SNoKey] = Str(<<"2">>)
    /\ res.data[1][IdKey] = Str(<<"r","o","w","-","2">>)

----------------------------------------------------------------------------
(* The rows of a response in the client's grid                             *)

\* response.data as axios parses it from the JSON text of the response
ParsedData(data) == [k \in 1..Len(data) |-> JSONRoundTrip(data[k])]

\* row => row && row['S.No'] && row['Job Details']
PassesFilter(row) == Truthy(GetProp(row, SNoKey)) /\ Truthy(GetProp(row, JobDetailsKey))

\* Clean and validate data: the rows DataGrid shows, in their order
cleanData(data) ==
    IF Len(data) = 0 THEN <<>>
    ELSE sort(SelectSeq(data, PassesFilter))

\* C28: the client grid displays exactly the rows the server returned, in
\* the same order: every row admitted by the server passes DataGrid's
\* filter (truthy 'S.No' and 'Job Details'), and DataGrid's re-sort by
\* rowNumber leaves the server's order unchanged.
C28_GridShowsServerRows ==
    Succeeded =>
        /\ \A k \in 1..Len(res.data) : PassesFilter(ParsedData(res.data)[k])
        /\ cleanData(ParsedData(res.data)) = ParsedData(res.data)

====
